---- MODULE Spec2Model ----
(***************************************************************************)
(* Directed ubergraphs (xgi_ubergraphs.DiUberGraphs): the node and edge    *)
(* tables, the edge uid counter, add_node, the recursive add_edge and      *)
(* update_uid_counter, as a state machine whose steps are top-level calls. *)
(***************************************************************************)
EXTENDS Integers, Sequences, FiniteSets, TLC

(***************************************************************************)
(* Bounds of the model.                                                    *)
(***************************************************************************)
\* number of top-level calls made on one object
MaxCalls == 2

\* largest integer a caller passes as idx
MaxIdx == 1

\* number of distinct attribute values a caller passes
NumAttrVals == 2

(***************************************************************************)
(* Python values.  Every value is a record of one shape, so that values of *)
(* different Python types compare unequal:                                 *)
(*   kind "none"  - None                                                   *)
(*   kind "str"   - a text value, val is its number: "a" is 0, "b" is 1,    *)
(*                  "in" is 2, "out" is 3                                  *)
(*   kind "int"   - the integer val                                        *)
(*   kind "list"  - a list of items (iterable, unhashable)                 *)
(*   kind "tuple" - a tuple of items (iterable, hashable if its items are) *)
(***************************************************************************)
None == [kind |-> "none", val |-> 0, items |-> <<>>]

StrVal(n) == [kind |-> "str", val |-> n, items |-> <<>>]

IntVal(n) == [kind |-> "int", val |-> n, items |-> <<>>]

ListVal(s) == [kind |-> "list", val |-> 0, items |-> s]

TupleVal(s) == [kind |-> "tuple", val |-> 0, items |-> s]

\* isinstance(v, (tuple, list))
IsListOrTuple(v) == v.kind \in {"list", "tuple"}

\* isinstance(v, Iterable) and not isinstance(v, (str, bytes))
IsIterable(v) == v.kind \in {"list", "tuple"}

\* hash(v) succeeds: a list is unhashable, a tuple is hashable when all its
\* items are (the values of the model nest tuples at most two levels deep)
Hashable(v) ==
    /\ v.kind # "list"
    /\ \A i \in 1..Len(v.items) :
         /\ v.items[i].kind # "list"
         /\ \A j \in 1..Len(v.items[i].items) : v.items[i].items[j].kind # "list"

(***************************************************************************)
(* IDDict: a dict whose __setitem__ refuses the key None.                  *)
(***************************************************************************)
\* dict.__setitem__(d, item, value)
DictSet(d, item, value) ==
    [k \in DOMAIN d \cup {item} |-> IF k = item THEN value ELSE d[k]]

\* IDDict.__setitem__ without its test "if item is None"
IDDictSetExc_NoNoneCheck(item) ==
    IF ~Hashable(item) THEN "TypeError" ELSE ""

\* the exception IDDict.__setitem__(item, _) raises, "" when it raises none:
\* "raise XGIError" for the key None, TypeError for a key dict cannot hash
IDDictSetExc(item) ==
    IF item = None THEN "XGIError"
    ELSE IF ~Hashable(item) THEN "TypeError"
    ELSE ""

\* the dict after IDDict.__setitem__(item, value): unchanged when it raises
IDDictSet(d, item, value) ==
    IF IDDictSetExc(item) # "" THEN d ELSE DictSet(d, item, value)

\* dict.update(d, other): the entries of other overwrite those of d
DictUpdate(d, other) ==
    [k \in DOMAIN d \cup DOMAIN other |-> IF k \in DOMAIN other THEN other[k] ELSE d[k]]

\* IDDict.__add__ with the two maps in each other's place: the entries of
\* dict overwrite those of self
__add__Swapped(self, dict) ==
    LET d == self
    IN  [ret |-> DictUpdate(d, dict), self |-> self, dict |-> dict]

\* IDDict.__add__(self, dict): "d = dict.copy(); d.update(self); return d".
\* The record is what the call returns and the two maps as the call leaves them
__add__(self, dict) ==
    LET d == dict
    IN  [ret |-> DictUpdate(d, self), self |-> self, dict |-> dict]

\* the keys of a dict in the order it iterates them (the order they were
\* first set in) after item is set: a new key goes last, a key the dict has
\* keeps its place
KeyOrderSet(order, item) ==
    IF \E i \in 1..Len(order) : order[i] = item THEN order ELSE Append(order, item)

\* an empty dict / IDDict()
EmptyDict == [k \in {} |-> 0]

\* {"in": set(), "out": set()}
EmptyIncidence == [in |-> {}, out |-> {}]

(***************************************************************************)
(* The object H of a call: the four tables and the uid counter of a        *)
(* DiUberGraphs, with the exception the call has raised so far ("" when    *)
(* none) and the number of warnings it has emitted.  node_order and        *)
(* edge_order are the keys of self._node and self._edge in the order the   *)
(* dicts iterate them.  An operation maps H to H; once exc is set the rest *)
(* of the call is skipped and the writes made before the raise stay.       *)
(***************************************************************************)
Raise(H, e) == [H EXCEPT !.exc = e]

\* warnings.warn(f"uid {uid} already exists, cannot add edge {members}")
Warn(H) == [H EXCEPT !.warns = @ + 1]

\* next(self._edge_uid) on a count that steps by two
NextUid_ByTwo(H) == [H EXCEPT !.edge_uid = @ + 2]

\* next(self._edge_uid) on an itertools.count: the value it returns is
\* H.edge_uid, and the count then stands one further
NextUid(H) == [H EXCEPT !.edge_uid = @ + 1]

\* add_node without its test "if node not in self._node": the incidence sets
\* and the attribute map of a node are made anew on every call
add_node_Reinit(H, node, attr) ==
    IF ~Hashable(node) THEN Raise(H, "TypeError")
    ELSE IF IDDictSetExc(node) # "" THEN Raise(H, IDDictSetExc(node))
    ELSE [H EXCEPT !.node = IDDictSet(H.node, node, EmptyIncidence),
                   !.node_attr = IDDictSet(H.node_attr, node, DictUpdate(EmptyDict, attr)),
                   !.node_order = KeyOrderSet(@, node)]

\* DiUberGraphs.add_node(node, **attr)
add_node(H, node, attr) ==
    IF ~Hashable(node) THEN Raise(H, "TypeError")
    ELSE IF node \notin DOMAIN H.node
    THEN IF IDDictSetExc(node) # "" THEN Raise(H, IDDictSetExc(node))
         ELSE [H EXCEPT !.node = IDDictSet(H.node, node, EmptyIncidence),
                        !.node_attr = IDDictSet(H.node_attr, node, DictUpdate(EmptyDict, attr)),
                        !.node_order = KeyOrderSet(@, node)]
    ELSE [H EXCEPT !.node_attr[node] = DictUpdate(@, attr)]

\* update_uid_counter with "uid < idx" for "uid <= idx"
update_uid_counter_StrictLess(H, idx) ==
    LET uid == H.edge_uid
    IN  IF idx.kind \in {"str", "tuple"} THEN [H EXCEPT !.edge_uid = uid]
        ELSE IF idx.kind # "int" THEN Raise(NextUid(H), "TypeError")
        ELSE IF uid < idx.val THEN [H EXCEPT !.edge_uid = idx.val + 1]
        ELSE [H EXCEPT !.edge_uid = uid]

\* update_uid_counter that leaves the count where its own next() has put it
\* when it does not move it past idx
update_uid_counter_NoRewind(H, idx) ==
    LET uid == H.edge_uid
    IN  IF idx.kind \in {"str", "tuple"} THEN [H EXCEPT !.edge_uid = uid + 1]
        ELSE IF idx.kind # "int" THEN Raise(NextUid(H), "TypeError")
        ELSE IF uid <= idx.val THEN [H EXCEPT !.edge_uid = idx.val + 1]
        ELSE [H EXCEPT !.edge_uid = uid + 1]

\* update_uid_counter without its test "uid <= idx"
update_uid_counter_NoCompare(H, idx) ==
    LET uid == H.edge_uid
    IN  IF idx.kind \in {"str", "tuple"} THEN [H EXCEPT !.edge_uid = uid]
        ELSE IF idx.kind # "int" THEN Raise(NextUid(H), "TypeError")
        ELSE [H EXCEPT !.edge_uid = idx.val + 1]

\* update_uid_counter(H, idx)
update_uid_counter(H, idx) ==
    LET uid == H.edge_uid
    IN  IF idx.kind \in {"str", "tuple"} THEN [H EXCEPT !.edge_uid = uid]
        ELSE IF idx.kind # "int" THEN Raise(NextUid(H), "TypeError")
        ELSE IF uid <= idx.val THEN [H EXCEPT !.edge_uid = idx.val + 1]
        ELSE [H EXCEPT !.edge_uid = uid]

\* add_edge._is_edge_like(el)
_is_edge_like(el) ==
    /\ IsListOrTuple(el)
    /\ Len(el.items) = 2
    /\ (IsIterable(el.items[1]) \/ IsIterable(el.items[2]))

\* _add_node_to_edge without "self._node_attr[node] = IDDict()"
_add_node_to_edge_NoAttrMap(H, uid, node, is_tail) ==
    IF ~Hashable(node) THEN Raise(H, "TypeError")
    ELSE IF node \notin DOMAIN H.node /\ IDDictSetExc(node) # ""
    THEN Raise(H, IDDictSetExc(node))
    ELSE LET H1 == IF node \notin DOMAIN H.node
                   THEN [H EXCEPT !.node = IDDictSet(H.node, node, EmptyIncidence),
                                  !.node_order = KeyOrderSet(@, node)]
                   ELSE H
         IN  IF is_tail
             THEN [H1 EXCEPT !.node[node].out = @ \cup {uid},
                             !.edge[uid].in = @ \cup {node}]
             ELSE [H1 EXCEPT !.node[node].in = @ \cup {uid},
                             !.edge[uid].out = @ \cup {node}]

\* _add_node_to_edge whose head branch adds the node to self._edge[uid]["in"]
_add_node_to_edge_HeadIntoIn(H, uid, node, is_tail) ==
    IF ~Hashable(node) THEN Raise(H, "TypeError")
    ELSE IF node \notin DOMAIN H.node /\ IDDictSetExc(node) # ""
    THEN Raise(H, IDDictSetExc(node))
    ELSE LET H1 == IF node \notin DOMAIN H.node
                   THEN [H EXCEPT !.node = IDDictSet(H.node, node, EmptyIncidence),
                                  !.node_attr = IDDictSet(H.node_attr, node, EmptyDict),
                                  !.node_order = KeyOrderSet(@, node)]
                   ELSE H
         IN  IF is_tail
             THEN [H1 EXCEPT !.node[node].out = @ \cup {uid},
                             !.edge[uid].in = @ \cup {node}]
             ELSE [H1 EXCEPT !.node[node].in = @ \cup {uid},
                             !.edge[uid].in = @ \cup {node}]

\* add_edge._add_node_to_edge(node, is_tail), for the edge uid
_add_node_to_edge(H, uid, node, is_tail) ==
    IF ~Hashable(node) THEN Raise(H, "TypeError")
    ELSE IF node \notin DOMAIN H.node /\ IDDictSetExc(node) # ""
    THEN Raise(H, IDDictSetExc(node))
    ELSE LET H1 == IF node \notin DOMAIN H.node
                   THEN [H EXCEPT !.node = IDDictSet(H.node, node, EmptyIncidence),
                                  !.node_attr = IDDictSet(H.node_attr, node, EmptyDict),
                                  !.node_order = KeyOrderSet(@, node)]
                   ELSE H
         IN  IF is_tail
             THEN [H1 EXCEPT !.node[node].out = @ \cup {uid},
                             !.edge[uid].in = @ \cup {node}]
             ELSE [H1 EXCEPT !.node[node].in = @ \cup {uid},
                             !.edge[uid].out = @ \cup {node}]

\* the test of members with "len(members) >= 2" for "len(members) == 2"
ValidMembers_AtLeastTwo(members) == IsListOrTuple(members) /\ Len(members.items) >= 2

\* isinstance(members, (tuple, list)) and len(members) == 2
ValidMembers(members) == IsListOrTuple(members) /\ Len(members.items) = 2

\* the duplicate test made on self._edge_attr for self._edge
UidPresent_InEdgeAttr(H, uid) == uid \in DOMAIN H.edge_attr

\* uid in self._edge
UidPresent(H, uid) == uid \in DOMAIN H.edge

\* uid = next(self._edge_uid) if idx is None else idx
ResolvedUid(H, idx) == IF idx = None THEN IntVal(H.edge_uid) ELSE idx

RECURSIVE add_edge(_, _, _, _)
RECURSIVE ForEachSub(_, _, _, _)
RECURSIVE ForEachEl(_, _, _, _)
RECURSIVE ForEachEl_Rollback(_, _, _, _)

\* the loop "for sub in el" of add_edge._process_element
ForEachSub(H, uid, subs, is_tail) ==
    IF subs = <<>> \/ H.exc # "" THEN H
    ELSE LET sub == Head(subs)
             H1 == IF _is_edge_like(sub)
                   THEN add_edge(H, sub, None, EmptyDict)
                   ELSE _add_node_to_edge(H, uid, sub, is_tail)
         IN  ForEachSub(H1, uid, Tail(subs), is_tail)

\* add_edge._process_element(el, is_tail), for the edge uid
_process_element(H, uid, el, is_tail) ==
    IF _is_edge_like(el) THEN add_edge(H, el, None, EmptyDict)
    ELSE IF IsIterable(el) THEN ForEachSub(H, uid, el.items, is_tail)
    ELSE _add_node_to_edge(H, uid, el, is_tail)

\* the loop over the elements of a side made all-or-nothing: when an element
\* raises, the writes of the elements before it are undone
ForEachEl_Rollback(H, uid, els, is_tail) ==
    IF els = <<>> \/ H.exc # "" THEN H
    ELSE LET R == ForEachEl_Rollback(_process_element(H, uid, Head(els), is_tail),
                                     uid, Tail(els), is_tail)
         IN  IF R.exc # "" THEN Raise(H, R.exc) ELSE R

\* the loops "for el in tail" and "for el in head" of add_edge
ForEachEl(H, uid, els, is_tail) ==
    IF els = <<>> \/ H.exc # "" THEN H
    ELSE ForEachEl(_process_element(H, uid, Head(els), is_tail), uid, Tail(els), is_tail)

\* "Process tail elements" / "Process head elements" of add_edge
ProcessSide(H, uid, side, is_tail) ==
    IF IsIterable(side) THEN ForEachEl(H, uid, side.items, is_tail)
    ELSE _process_element(H, uid, side, is_tail)

\* the statements of add_edge after its first update_uid_counter: the body of
\* add_edge a second time.  The edge idx has just been stored, so the test
\* "uid in self._edge" succeeds, the call warns and returns, and the
\* statements below that return are never run
AddEdgeSecondPass(H, members, idx) ==
    IF ~ValidMembers(members) THEN Raise(H, "TypeError")
    ELSE IF UidPresent(H, idx) THEN Warn(H)
    ELSE H

\* DiUberGraphs.add_edge(members, idx, **attr)
add_edge(H, members, idx, attr) ==
    IF ~ValidMembers(members) THEN Raise(H, "TypeError")
    ELSE
      LET tail == members.items[1]
          head == members.items[2]
          uid  == ResolvedUid(H, idx)
          H0   == IF idx = None THEN NextUid(H) ELSE H
      IN  IF ~Hashable(uid) THEN Raise(H0, "TypeError")
          ELSE IF UidPresent(H0, uid) THEN Warn(H0)
          ELSE
            LET H1 == [H0 EXCEPT !.edge = IDDictSet(H0.edge, uid, EmptyIncidence),
                                 !.edge_order = KeyOrderSet(@, uid)]
                H2 == ProcessSide(H1, uid, tail, TRUE)
                H3 == IF H2.exc # "" THEN H2 ELSE ProcessSide(H2, uid, head, FALSE)
                H4 == IF H3.exc # "" THEN H3
                      ELSE [H3 EXCEPT !.edge_attr =
                                IDDictSet(H3.edge_attr, uid, DictUpdate(EmptyDict, attr))]
                H5 == IF H4.exc # "" \/ idx = None THEN H4 ELSE update_uid_counter(H4, idx)
            IN  IF H5.exc # "" \/ idx = None THEN H5
                ELSE AddEdgeSecondPass(H5, members, idx)

(***************************************************************************)
(* incidence_matrix(H, order, sparse, index, weight) with the default      *)
(* weight.  A matrix is a record: its kind ("csr_array" or "ndarray"), its *)
(* shape <<rows, columns>> and its entries at, a function of <<row, col>>. *)
(* The call returns the matrix, or with index=True the matrix and the two  *)
(* index maps; the record of a call holds them with the exception raised   *)
(* ("" when none) and the number of times weight was called.               *)
(***************************************************************************)
\* the texts "in" and "out", the keys of an edge record
KeyIn == StrVal(2)

KeyOut == StrVal(3)

\* H.nodes: iterates the node ids, in the order of self._node
nodes(H) == H.node_order

\* H.edges: iterates the edge ids, in the order of self._edge
edges(H) == H.edge_order

\* H.edges.filterby("order", order): the edges whose order, the number of
\* their members less one, is order
filterby(H, order) ==
    LET HasOrder(e) == Cardinality(H.edge[e].in \cup H.edge[e].out) - 1 = order.val
    IN  SelectSeq(edges(H), HasOrder)

RECURSIVE ConcatAll(_)
\* the sequences of ss one after the other
ConcatAll(ss) == IF ss = <<>> THEN <<>> ELSE Head(ss) \o ConcatAll(Tail(ss))

\* weight=lambda node, edge, H: 1
weight(node, edge, H) == 1

\* dict(zip(ids, range(len(ids))))
ZipRange(ids) ==
    [k \in {ids[i] : i \in 1..Len(ids)} |-> (CHOOSE i \in 1..Len(ids) : ids[i] = k) - 1]

\* {v: k for k, v in d.items()} of d = dict(zip(ids, range(len(ids))))
Reversed(ids) == [i \in 0..(Len(ids) - 1) |-> ids[i + 1]]

\* "for node in members" with members = H._edge[edge]: the record of an edge
\* is the dict {"in": ..., "out": ...}, and iterating a dict yields its keys
MembersIterated(H, edge) == <<KeyIn, KeyOut>>

RECURSIVE SumAt(_, _, _, _, _)
\* the sum of the data whose coordinates are (r, c)
SumAt(rows, cols, data, r, c) ==
    IF rows = <<>> THEN 0
    ELSE (IF Head(rows) = r /\ Head(cols) = c THEN Head(data) ELSE 0)
         + SumAt(Tail(rows), Tail(cols), Tail(data), r, c)

\* the last of the data whose coordinates are (r, c), 0 when there is none
LastAt(rows, cols, data, r, c) ==
    LET S == {p \in 1..Len(rows) : rows[p] = r /\ cols[p] = c}
    IN  IF S = {} THEN 0 ELSE data[CHOOSE p \in S : \A q \in S : q <= p]

\* csr_array((data, (rows, cols)), shape=shape, dtype=int): the entries given
\* for the same coordinates are added up
csr_array(data, rows, cols, shape) ==
    [kind |-> "csr_array", shape |-> shape,
     at |-> [rc \in (0..(shape[1] - 1)) \X (0..(shape[2] - 1)) |->
                 SumAt(rows, cols, data, rc[1], rc[2])]]

\* np.zeros(shape, dtype=int) followed by "I[rows, cols] = data": of the
\* values assigned to the same coordinates the last one stays
ndarray(data, rows, cols, shape) ==
    [kind |-> "ndarray", shape |-> shape,
     at |-> [rc \in (0..(shape[1] - 1)) \X (0..(shape[2] - 1)) |->
                 LastAt(rows, cols, data, rc[1], rc[2])]]

\* csr_array((0, 0), dtype=int) / np.empty((0, 0), dtype=int)
EmptyMatrix(sparse) ==
    IF sparse THEN csr_array(<<>>, <<>>, <<>>, <<0, 0>>)
    ELSE ndarray(<<>>, <<>>, <<>>, <<0, 0>>)

\* no matrix: the call has raised
NoMatrix == [kind |-> "none", shape |-> <<0, 0>>, at |-> EmptyDict]

\* incidence_matrix from "num_edges = len(edge_ids)" on
BuildMatrix(H, node_ids, edge_ids, sparse, index) ==
    LET num_edges == Len(edge_ids)
        num_nodes == Len(node_ids)
        node_dict == ZipRange(node_ids)
        edge_dict == ZipRange(edge_ids)
        rowdict   == IF index THEN Reversed(node_ids) ELSE EmptyDict
        coldict   == IF index THEN Reversed(edge_ids) ELSE EmptyDict
        \* the (node, edge) of every turn of the two loops, in order
        turns     == ConcatAll([i \in 1..num_edges |->
                         [j \in 1..Len(MembersIterated(H, edge_ids[i])) |->
                              <<MembersIterated(H, edge_ids[i])[j], edge_ids[i]>>]])
        \* the turns whose "node_dict[node]" raises KeyError
        missing   == {p \in 1..Len(turns) : turns[p][1] \notin DOMAIN node_dict}
        first     == CHOOSE p \in missing : \A q \in missing : p <= q
        rows      == [p \in 1..Len(turns) |-> node_dict[turns[p][1]]]
        cols      == [p \in 1..Len(turns) |-> edge_dict[turns[p][2]]]
        data      == [p \in 1..Len(turns) |-> weight(turns[p][1], turns[p][2], H)]
    IN  IF missing # {}
        THEN [exc |-> "KeyError", sparse |-> sparse, index |-> index, I |-> NoMatrix,
              rowdict |-> EmptyDict, coldict |-> EmptyDict, weight_calls |-> first - 1]
        ELSE [exc |-> "", sparse |-> sparse, index |-> index,
              I |-> IF sparse THEN csr_array(data, rows, cols, <<num_nodes, num_edges>>)
                    ELSE ndarray(data, rows, cols, <<num_nodes, num_edges>>),
              rowdict |-> rowdict, coldict |-> coldict, weight_calls |-> Len(turns)]

\* incidence_matrix with "and" for the "or" of "if not edge_ids or not node_ids"
incidence_matrix_BothEmpty(H, order, sparse, index) ==
    LET node_ids == nodes(H)
        edge_ids == IF order # None THEN filterby(H, order) ELSE edges(H)
    IN  IF edge_ids = <<>> /\ node_ids = <<>>
        THEN [exc |-> "", sparse |-> sparse, index |-> index, I |-> EmptyMatrix(sparse),
              rowdict |-> EmptyDict, coldict |-> EmptyDict, weight_calls |-> 0]
        ELSE BuildMatrix(H, node_ids, edge_ids, sparse, index)

\* incidence_matrix(H, order, sparse, index)
incidence_matrix(H, order, sparse, index) ==
    LET node_ids == nodes(H)
        edge_ids == IF order # None THEN filterby(H, order) ELSE edges(H)
    IN  IF edge_ids = <<>> \/ node_ids = <<>>
        THEN [exc |-> "", sparse |-> sparse, index |-> index, I |-> EmptyMatrix(sparse),
              rowdict |-> EmptyDict, coldict |-> EmptyDict, weight_calls |-> 0]
        ELSE BuildMatrix(H, node_ids, edge_ids, sparse, index)

(***************************************************************************)
(* The arguments the callers of the model pass.                            *)
(***************************************************************************)
\* the node tokens "a" and "b"
a == StrVal(0)

b == StrVal(1)

\* keyword arguments: the key "k" absent or set to one of the values
Attrs == {EmptyDict} \cup {[k \in {"k"} |-> v] : v \in 1..NumAttrVals}

\* the ids a caller passes as idx: None (generate one), integers and a text
Idxs == {None} \cup {IntVal(n) : n \in 0..MaxIdx} \cup {StrVal(0)}

\* the tuple (0, 1) passed as idx
TupleIdx == TupleVal(<<IntVal(0), IntVal(1)>>)

\* (tail, head)
Pair(t, h) == TupleVal(<<t, h>>)

\* flat specs: a list of tokens on each side
FlatSpecs ==
    {Pair(ListVal(t), ListVal(h)) : t \in {<<>>, <<a>>, <<a, b>>}, h \in {<<>>, <<b>>}}

\* the edge-like elements (["a"], ["b"]) and (["b"], [])
E1 == Pair(ListVal(<<a>>), ListVal(<<b>>))

E2 == Pair(ListVal(<<b>>), ListVal(<<>>))

\* the edge-like element ([E2], ["a"]), whose tail holds an edge-like element
E3 == Pair(ListVal(<<E2>>), ListVal(<<a>>))

\* specs with edge-like elements: one met directly in the tail, two met in
\* tail and head, one inside an iterable that is flattened
NestedSpecs ==
    { Pair(ListVal(<<E1>>), ListVal(<<a>>)),
      Pair(ListVal(<<E2, a>>), ListVal(<<E1>>)),
      Pair(ListVal(<<ListVal(<<E1>>), b>>), ListVal(<<>>)) }

\* the spec ([E3], [E1]): an edge-like element that itself holds an
\* edge-like element, followed by another in the head
DeepSpec == Pair(ListVal(<<E3>>), ListVal(<<E1>>))

\* specs whose sides are tokens, or hold an iterable of tokens (flattened one
\* level) next to a tuple below the flattened level (registered as a node)
OtherSpecs ==
    { Pair(a, b),
      Pair(ListVal(<<ListVal(<<a, b>>), ListVal(<<TupleVal(<<b>>)>>)>>), ListVal(<<ListVal(<<b>>)>>)) }

\* specs that raise while their members are registered: None as a member
\* after a token or after an edge-like element, and a list below the
\* flattened level (unhashable)
RaisingSpecs ==
    { Pair(ListVal(<<a>>), ListVal(<<b, None>>)),
      Pair(ListVal(<<E1, None>>), ListVal(<<>>)),
      Pair(ListVal(<<ListVal(<<ListVal(<<a>>)>>)>>), ListVal(<<>>)) }

\* specs that are not a list or tuple of length 2
MalformedSpecs ==
    { a, TupleVal(<<ListVal(<<a>>), ListVal(<<>>), ListVal(<<>>)>>) }

Members == FlatSpecs \cup NestedSpecs \cup OtherSpecs \cup RaisingSpecs \cup MalformedSpecs

\* the tokens passed to add_node
NodeArgs == {a, None}

(***************************************************************************)
(* The state: the fields of a DiUberGraphs, and the last top-level call.   *)
(***************************************************************************)
VARIABLES
    _node,       \* self._node: token -> {"in": edge ids, "out": edge ids}
    _node_attr,  \* self._node_attr: token -> attribute dict
    _edge,       \* self._edge: edge id -> {"in": tail tokens, "out": head tokens}
    _edge_attr,  \* self._edge_attr: edge id -> attribute dict
    _edge_uid,   \* self._edge_uid: the value next(self._edge_uid) returns
    last,        \* the last top-level call: name, arguments, exception, warnings
    calls,       \* the number of top-level calls made
    auto_only,   \* every call so far was add_edge(flat spec, idx=None)
    _node_order, \* the keys of self._node in the order the dict iterates them
    _edge_order, \* the keys of self._edge in the order the dict iterates them
    ret,         \* what the last top-level call returned
    d1,          \* an IDDict of its own, the left operand of d1 + d2
    d2           \* an IDDict of its own, the right operand of d1 + d2

vars == <<_node, _node_attr, _edge, _edge_attr, _edge_uid, last, calls, auto_only,
          _node_order, _edge_order, ret, d1, d2>>

\* the object as the record the operations work on
Self == [node |-> _node, node_attr |-> _node_attr, edge |-> _edge,
         edge_attr |-> _edge_attr, edge_uid |-> _edge_uid, exc |-> "", warns |-> 0,
         node_order |-> _node_order, edge_order |-> _edge_order]

\* the fields after a call that ends in R
Store(R) ==
    /\ _node' = R.node
    /\ _node_attr' = R.node_attr
    /\ _edge' = R.edge
    /\ _edge_attr' = R.edge_attr
    /\ _edge_uid' = R.edge_uid
    /\ _node_order' = R.node_order
    /\ _edge_order' = R.edge_order

\* DiUberGraphs.__init__
InitGraph ==
    /\ _node = EmptyDict
    /\ _node_attr = EmptyDict
    /\ _edge = EmptyDict
    /\ _edge_attr = EmptyDict
    /\ _edge_uid = 0
    /\ last = [op |-> "__init__", arg |-> None, idx |-> None, attr |-> EmptyDict,
               exc |-> "", warns |-> 0]
    /\ calls = 0
    /\ auto_only = TRUE
    /\ _node_order = <<>>
    /\ _edge_order = <<>>
    /\ ret = None

\* a new DiUberGraphs, and two empty IDDicts
Init ==
    /\ InitGraph
    /\ d1 = EmptyDict
    /\ d2 = EmptyDict

\* a top-level call add_node(node, **attr)
AddNode(node, attr) ==
    LET R == add_node(Self, node, attr)
    IN  /\ calls < MaxCalls
        /\ last.op # "incidence_matrix"
        /\ Store(R)
        /\ last' = [op |-> "add_node", arg |-> node, idx |-> None, attr |-> attr,
                    exc |-> R.exc, warns |-> R.warns]
        /\ calls' = calls + 1
        /\ auto_only' = FALSE
        /\ ret' = None
        /\ UNCHANGED <<d1, d2>>

\* a top-level call add_edge(members, idx, **attr)
AddEdge(members, idx, attr) ==
    LET R == add_edge(Self, members, idx, attr)
    IN  /\ calls < MaxCalls
        /\ last.op # "incidence_matrix"
        /\ Store(R)
        /\ last' = [op |-> "add_edge", arg |-> members, idx |-> idx, attr |-> attr,
                    exc |-> R.exc, warns |-> R.warns]
        /\ calls' = calls + 1
        /\ auto_only' = (auto_only /\ idx = None /\ members \in FlatSpecs)
        /\ ret' = None
        /\ UNCHANGED <<d1, d2>>

\* add_edge without keyword arguments
AddEdgeNoAttr ==
    \E members \in Members, idx \in Idxs : AddEdge(members, idx, EmptyDict)

\* add_edge of the edge-like element E1 with keyword arguments
AddEdgeAttr ==
    \E idx \in Idxs, attr \in Attrs \ {EmptyDict} : AddEdge(E1, idx, attr)

\* add_edge of a flat spec with members on both sides, with a tuple as idx
AddEdgeTupleIdx ==
    \E members \in {m \in FlatSpecs : m.items[1].items # <<>> /\ m.items[2].items # <<>>} :
        AddEdge(members, TupleIdx, EmptyDict)

\* add_edge of the spec with edge-like elements on two levels
AddEdgeDeep == AddEdge(DeepSpec, None, EmptyDict)

\* the spec (["in", "out"], ["out"]), whose tokens are the texts that also
\* are the keys of an edge record
KeyTokensSpec == Pair(ListVal(<<KeyIn, KeyOut>>), ListVal(<<KeyOut>>))

\* add_edge of the spec of the nodes "in" and "out"
AddEdgeKeyTokens == AddEdge(KeyTokensSpec, None, EmptyDict)

\* the values passed as order: None (no filter) and the order 1
Orders == {None, IntVal(1)}

\* a top-level call incidence_matrix(H, order, sparse, index) on the object.
\* It reads the object and changes nothing of it; the model makes it the last
\* call on the object
IncidenceMatrix(order, sparse, index) ==
    LET R == incidence_matrix(Self, order, sparse, index)
    IN  /\ calls < MaxCalls
        /\ last.op # "incidence_matrix"
        /\ ret' = R
        /\ last' = [op |-> "incidence_matrix", arg |-> order, idx |-> None,
                    attr |-> EmptyDict, exc |-> R.exc, warns |-> 0]
        /\ calls' = calls + 1
        /\ auto_only' = FALSE
        /\ UNCHANGED <<_node, _node_attr, _edge, _edge_attr, _edge_uid,
                       _node_order, _edge_order, d1, d2>>

Next ==
    \/ \E node \in NodeArgs, attr \in Attrs : AddNode(node, attr)
    \/ AddEdgeNoAttr
    \/ AddEdgeAttr
    \/ AddEdgeTupleIdx
    \/ AddEdgeDeep
    \/ AddEdgeKeyTokens
    \/ \E order \in Orders, sparse \in BOOLEAN, index \in BOOLEAN :
           IncidenceMatrix(order, sparse, index)

Spec == Init /\ [][Next]_vars

(***************************************************************************)
(* IDDict.__add__ on its own: two IDDicts with any entries, and the call   *)
(* d1 + d2.                                                                *)
(***************************************************************************)
\* the IDDicts of the model: the keys "a" and "b", each absent or set to one
\* of the attribute values
IDDicts ==
    UNION {[K -> 1..NumAttrVals] : K \in SUBSET {a, b}}

InitAdd ==
    /\ InitGraph
    /\ d1 \in IDDicts
    /\ d2 \in IDDicts

\* the call d1 + d2
Add ==
    LET R == __add__(d1, d2)
    IN  /\ ret' = R.ret
        /\ d1' = R.self
        /\ d2' = R.dict
        /\ last' = [op |-> "__add__", arg |-> None, idx |-> None, attr |-> EmptyDict,
                    exc |-> "", warns |-> 0]
        /\ UNCHANGED <<_node, _node_attr, _edge, _edge_attr, _edge_uid, calls,
                       auto_only, _node_order, _edge_order>>

NextAdd == Add

SpecAdd == InitAdd /\ [][NextAdd]_vars

(***************************************************************************)
(* What a spec describes: the plain members of a side and the edge-like    *)
(* elements met in it, directly or inside an iterable flattened one level. *)
(***************************************************************************)
\* the elements of a side: its items, or the side itself when it is a token
SideElements(side) == IF IsIterable(side) THEN side.items ELSE <<side>>

\* the edge-like elements one element of a side contributes
EdgeLikesOf(el) ==
    IF _is_edge_like(el) THEN <<el>>
    ELSE IF IsIterable(el) THEN SelectSeq(el.items, _is_edge_like)
    ELSE <<>>

\* the plain members one element of a side contributes
PlainOf(el) ==
    IF _is_edge_like(el) THEN {}
    ELSE IF IsIterable(el) THEN {el.items[i] : i \in {j \in 1..Len(el.items) : ~_is_edge_like(el.items[j])}}
    ELSE {el}

\* the edge-like elements met in a side, in the order they are met
EdgeLikesMet(side) ==
    ConcatAll([i \in 1..Len(SideElements(side)) |-> EdgeLikesOf(SideElements(side)[i])])

\* the plain members of a side
PlainMembers(side) ==
    UNION {PlainOf(SideElements(side)[i]) : i \in 1..Len(SideElements(side))}

\* the edge record a (tail, head) pair describes
Described(pair) ==
    [in |-> PlainMembers(pair.items[1]), out |-> PlainMembers(pair.items[2])]

\* the specs of the edges a call makes, in the order it draws their ids: the
\* spec itself, then for each edge-like element met in its tail and then in
\* its head the specs of the call made on that element
RECURSIVE PreOrder(_)
PreOrder(pair) ==
    LET met == EdgeLikesMet(pair.items[1]) \o EdgeLikesMet(pair.items[2])
    IN  <<pair>> \o ConcatAll([i \in 1..Len(met) |-> PreOrder(met[i])])

\* a spec that is a list or tuple of length 2
WellFormed(members) == IsListOrTuple(members) /\ Len(members.items) = 2

\* the four tables are left as they are
TablesUnchanged == UNCHANGED <<_node, _node_attr, _edge, _edge_attr>>

(***************************************************************************)
(* The claims.                                                             *)
(***************************************************************************)
\* C1: in every reachable state the value the allocator generates next is
\* strictly greater than every integer-valued edge id in the edge table.
C1_NextUidAboveIntegerIds ==
    \A id \in DOMAIN _edge : id.kind = "int" => _edge_uid > id.val

\* C2: a well-formed add_edge call whose id is not yet in the edge table makes
\* of each edge-like element met in tail or head, and in turn of each met in
\* such an element, exactly one brand-new edge, with an id other than the
\* outer one and the members the element describes, and the outer edge gets
\* none of the element's members.
C2_EdgeLikeElementsBecomeEdges ==
    [][ ( /\ last'.op = "add_edge"
          /\ WellFormed(last'.arg)
          /\ last'.exc = ""
          /\ ResolvedUid(Self, last'.idx) \notin DOMAIN _edge )
        => LET uid == ResolvedUid(Self, last'.idx)
               met == Tail(PreOrder(last'.arg))
               new == (DOMAIN _edge' \ DOMAIN _edge) \ {uid}
           IN  /\ Cardinality(new) = Len(met)
               /\ \A i \in 1..Len(met) : \E id \in new : _edge'[id] = Described(met[i])
               /\ uid \in DOMAIN _edge'
               /\ _edge'[uid] = Described(last'.arg) ]_vars

\* C3: add_edge(spec2, idx=k) with k already a key of the edge table is a
\* no-op: the four tables and the allocator counter are the same before and
\* after, whatever spec2 is, so the entry of k still describes the first spec.
C3_DuplicateIdIsNoOp ==
    [][ (last'.op = "add_edge" /\ last'.idx # None /\ last'.idx \in DOMAIN _edge)
        => (TablesUnchanged /\ _edge_uid' = _edge_uid) ]_vars

\* a second call add_edge((["a", "b"], ["b"]), idx=0) has been made on an
\* edge 0 that still is the edge of another spec
C3_Witness ==
    /\ last.op = "add_edge"
    /\ last.idx = IntVal(0)
    /\ last.arg = Pair(ListVal(<<a, b>>), ListVal(<<b>>))
    /\ IntVal(0) \in DOMAIN _edge
    /\ _edge[IntVal(0)] # Described(last.arg)

\* C4: bipartite consistency: for every node n and edge e of the tables, e is
\* in n's out-set iff n is a tail member of e, and e is in n's in-set iff n is
\* a head member of e.
C4_BipartiteConsistency ==
    \A n \in DOMAIN _node, e \in DOMAIN _edge :
        /\ e \in _node[n].out <=> n \in _edge[e].in
        /\ e \in _node[n].in <=> n \in _edge[e].out

\* an add_edge call raised after it had registered a tail and a head member
C4_Witness ==
    /\ last.op = "add_edge"
    /\ last.exc # ""
    /\ \E e \in DOMAIN _edge : _edge[e].in # {} /\ _edge[e].out # {}

\* C5: add_edge((tail, head)) with collections of tokens adds exactly one edge
\* table entry, with the tail tokens as tail members and the head tokens as
\* head members; each tail token is a node with the new id in its out-set,
\* each head token a node with it in its in-set; no other edge changes.
C5_FlatSpecAddsOneEdge ==
    [][ (last'.op = "add_edge" /\ last'.arg \in FlatSpecs /\ last'.idx = None)
        => \E id \in DOMAIN _edge' :
             /\ id \notin DOMAIN _edge
             /\ DOMAIN _edge' = DOMAIN _edge \cup {id}
             /\ _edge'[id] = Described(last'.arg)
             /\ \A t \in Described(last'.arg).in :
                    t \in DOMAIN _node' /\ id \in _node'[t].out
             /\ \A h \in Described(last'.arg).out :
                    h \in DOMAIN _node' /\ id \in _node'[h].in
             /\ \A e \in DOMAIN _edge : _edge'[e] = _edge[e] ]_vars

\* C6: on a fresh object the calls add_edge(flat, idx=None) get the ids
\* 0, 1, 2, ... in order, none skipped or reused; a committed
\* add_edge(flat, idx=k) leaves the counter at k + 1 when it was at most k and
\* as it was otherwise, and an add_edge(flat, idx=None) gets the counter value.
C6_AllocatorSequence ==
    [][ /\ auto_only' =>
             /\ IntVal(calls) \notin DOMAIN _edge
             /\ DOMAIN _edge' = DOMAIN _edge \cup {IntVal(calls)}
             /\ _edge_uid' = calls + 1
        /\ ( /\ last'.op = "add_edge"
             /\ last'.arg \in FlatSpecs
             /\ last'.idx.kind = "int"
             /\ last'.idx \notin DOMAIN _edge )
           => /\ last'.idx \in DOMAIN _edge'
              /\ _edge_uid' = IF _edge_uid <= last'.idx.val
                              THEN last'.idx.val + 1 ELSE _edge_uid
        /\ (last'.op = "add_edge" /\ last'.arg \in FlatSpecs /\ last'.idx = None)
           => /\ IntVal(_edge_uid) \in DOMAIN _edge'
              /\ DOMAIN _edge' \subseteq DOMAIN _edge \cup {IntVal(_edge_uid)}
              /\ _edge_uid' = _edge_uid + 1 ]_vars

\* add_edge(flat, idx=1) was committed on a fresh object and the following
\* add_edge(flat, idx=None) got the id 2
C6_Witness ==
    /\ calls = 2
    /\ last.op = "add_edge"
    /\ last.idx = None
    /\ last.arg \in FlatSpecs
    /\ DOMAIN _edge = {IntVal(1), IntVal(2)}
    /\ IntVal(1) \in DOMAIN _edge_attr
    /\ _edge_uid = 3

\* C7: an add_edge call without edge-like elements warns only when its id was
\* in the edge table before the call, a call that warns leaves the four tables
\* as they were, and add_edge(spec, idx=k) with k not in the edge table commits
\* the edge without a warning.
C7_WarningOnlyOnDuplicate ==
    [][ ( /\ last'.op = "add_edge"
          /\ WellFormed(last'.arg)
          /\ EdgeLikesMet(last'.arg.items[1]) \o EdgeLikesMet(last'.arg.items[2]) = <<>> )
        => /\ last'.warns > 0 =>
                (ResolvedUid(Self, last'.idx) \in DOMAIN _edge /\ TablesUnchanged)
           /\ (last'.idx # None /\ last'.idx \notin DOMAIN _edge /\ last'.exc = "") =>
                (last'.idx \in DOMAIN _edge' /\ last'.warns = 0) ]_vars

\* C8: add_edge with a spec that is not a list or tuple of 2 elements raises
\* and changes nothing: the four tables stay and no id is consumed.
C8_MalformedSpecFailsFast ==
    [][ (last'.op = "add_edge" /\ last'.arg \in MalformedSpecs)
        => (last'.exc = "TypeError" /\ TablesUnchanged /\ _edge_uid' = _edge_uid) ]_vars

\* add_edge of a 3-tuple with idx=None has raised on an object that has edges
C8_Witness ==
    /\ last.op = "add_edge"
    /\ last.arg = TupleVal(<<ListVal(<<a>>), ListVal(<<>>), ListVal(<<>>)>>)
    /\ last.idx = None
    /\ last.exc = "TypeError"
    /\ DOMAIN _edge # {}

\* C9: add_node(token, attrs) changes neither the edge tables, nor the
\* counter, nor any other node; on a token of the node table it leaves the
\* in/out sets and overlays attrs on the attribute map; on a new token it
\* makes empty in/out sets and the attribute map attrs; the same call made
\* twice in a row changes nothing the second time.
C9_AddNodeFrame ==
    [][ (last'.op = "add_node" /\ last'.exc = "")
        => LET n == last'.arg
               attrs == last'.attr
           IN  /\ _edge' = _edge /\ _edge_attr' = _edge_attr /\ _edge_uid' = _edge_uid
               /\ DOMAIN _node' = DOMAIN _node \cup {n}
               /\ DOMAIN _node_attr' = DOMAIN _node_attr \cup {n}
               /\ \A m \in DOMAIN _node \ {n} :
                      _node'[m] = _node[m] /\ _node_attr'[m] = _node_attr[m]
               /\ n \in DOMAIN _node =>
                      /\ _node'[n] = _node[n]
                      /\ DOMAIN _node_attr'[n] = DOMAIN _node_attr[n] \cup DOMAIN attrs
                      /\ \A key \in DOMAIN _node_attr'[n] :
                             _node_attr'[n][key] = IF key \in DOMAIN attrs
                                                   THEN attrs[key] ELSE _node_attr[n][key]
               /\ n \notin DOMAIN _node =>
                      (_node'[n] = EmptyIncidence /\ _node_attr'[n] = attrs)
               /\ (last.op = "add_node" /\ last.exc = "" /\ last.arg = n /\ last.attr = attrs)
                      => TablesUnchanged ]_vars

\* add_node("a", k=2) was called on a node "a" that is a member of an edge
C9_Witness ==
    /\ last.op = "add_node"
    /\ last.arg = a
    /\ last.attr = [k \in {"k"} |-> 2]
    /\ a \in DOMAIN _node
    /\ _node[a].out # {}
    /\ _node_attr[a] = [k \in {"k"} |-> 2]

\* C10: None is never a key of the four tables; add_node(None), and an
\* add_edge call that comes to register None as a member, raise.
C10_NoNullKey ==
    /\ [] ( /\ None \notin DOMAIN _node
            /\ None \notin DOMAIN _node_attr
            /\ None \notin DOMAIN _edge
            /\ None \notin DOMAIN _edge_attr
            /\ (last.op = "add_node" /\ last.arg = None) => last.exc # "" )
    /\ [][ ( /\ last'.op = "add_edge"
             /\ WellFormed(last'.arg)
             /\ ResolvedUid(Self, last'.idx) \notin DOMAIN _edge
             /\ None \in Described(last'.arg).in \cup Described(last'.arg).out )
           => last'.exc # "" ]_vars

\* add_edge has raised on the member None after it had registered a member
C10_Witness ==
    /\ last.op = "add_edge"
    /\ last.exc = "XGIError"
    /\ None \in Described(last.arg).out
    /\ \E e \in DOMAIN _edge : _edge[e].out # {}

(***************************************************************************)
(* What a call that raises on a member has processed before the raise.     *)
(***************************************************************************)
\* a plain member whose registration raises: None, or an unhashable value
Bad(tok) == tok = None \/ ~Hashable(tok)

\* the place of the first plain item of items whose registration raises,
\* 0 when there is none
FirstBad(items) ==
    LET S == {j \in 1..Len(items) : ~_is_edge_like(items[j]) /\ Bad(items[j])}
    IN  IF S = {} THEN 0 ELSE CHOOSE j \in S : \A k \in S : j <= k

\* _process_element raises on el while it registers a plain member
ElFails(el) ==
    /\ ~_is_edge_like(el)
    /\ IF IsIterable(el) THEN FirstBad(el.items) # 0 ELSE Bad(el)

\* the place of the first element of els on which _process_element raises,
\* 0 when there is none
FirstFailing(els) ==
    LET S == {i \in 1..Len(els) : ElFails(els[i])}
    IN  IF S = {} THEN 0 ELSE CHOOSE i \in S : \A k \in S : i <= k

\* the loop over the side raises on a plain member
SideFails(side) == FirstFailing(SideElements(side)) # 0

\* the part of a side that fails which is processed before the raise: the
\* elements before the failing one and, when that one is an iterable, its
\* items before the failing item
TruncatedSide(side) ==
    LET els == SideElements(side)
        i   == FirstFailing(els)
    IN  ListVal(SubSeq(els, 1, i - 1) \o
                (IF IsIterable(els[i])
                 THEN <<[els[i] EXCEPT !.items = SubSeq(@, 1, FirstBad(@) - 1)]>>
                 ELSE <<>>))

\* the part of a spec that fails which is processed before the raise
Truncated(pair) ==
    IF SideFails(pair.items[1])
    THEN Pair(TruncatedSide(pair.items[1]), ListVal(<<>>))
    ELSE Pair(pair.items[1], TruncatedSide(pair.items[2]))

\* the function d without the key item
Without(d, item) == [k \in DOMAIN d \ {item} |-> d[k]]

\* the four tables a call ends with, less the attribute map of the edge uid,
\* and the exception of the call
TablesLess(R, uid) == <<R.node, R.node_attr, R.edge, Without(R.edge_attr, uid), R.exc>>

\* C13: add_edge is not transactional: when it raises while it registers a
\* member (None, or an unhashable value), the nodes registered and the nested
\* edges created from the elements before, and the membership links already
\* added to the outer edge, stay in the tables: the tables are those of the
\* same call on the part of the spec before the failing member, but for the
\* attribute map of the outer edge, which is not made.
C13_NotTransactional ==
    [][ ( /\ last'.op = "add_edge"
          /\ last'.exc # ""
          /\ WellFormed(last'.arg)
          /\ ResolvedUid(Self, last'.idx) \notin DOMAIN _edge
          /\ SideFails(last'.arg.items[1]) \/ SideFails(last'.arg.items[2]) )
        => LET uid  == ResolvedUid(Self, last'.idx)
               done == Truncated(last'.arg)
           IN  /\ uid \in DOMAIN _edge'
               /\ _edge'[uid] = Described(done)
               /\ \A t \in Described(done).in :
                      t \in DOMAIN _node' /\ uid \in _node'[t].out
               /\ \A h \in Described(done).out :
                      h \in DOMAIN _node' /\ uid \in _node'[h].in
               /\ \A e \in DOMAIN _edge : e \in DOMAIN _edge' /\ _edge'[e] = _edge[e]
               /\ <<_node', _node_attr', _edge', _edge_attr', "">>
                      = TablesLess(add_edge(Self, done, last'.idx, last'.attr), uid) ]_vars

\* add_edge(([E1, None], [])) has raised on None: the edge of E1 is in the
\* tables with its attribute map and its two member nodes, and the record of
\* the outer edge is there without members and without attribute map
C13_Witness ==
    /\ last.op = "add_edge"
    /\ last.arg = Pair(ListVal(<<E1, None>>), ListVal(<<>>))
    /\ last.exc = "XGIError"
    /\ \E e \in DOMAIN _edge_attr :
           _edge[e] = Described(E1) /\ e \in _node[a].out /\ e \in _node[b].in
    /\ \E uid \in DOMAIN _edge \ DOMAIN _edge_attr : _edge[uid] = EmptyIncidence

\* C14: a successful add_edge(flat spec, idx) whose idx is a text or a tuple
\* leaves the allocator as it was: the next generated id is the one it would
\* have been without the call; so does one whose idx is an integer smaller
\* than the counter.
C14_IdxLeavesAllocator ==
    [][ ( /\ last'.op = "add_edge"
          /\ last'.arg \in FlatSpecs
          /\ last'.idx # None
          /\ last'.idx \notin DOMAIN _edge
          /\ \/ last'.idx.kind \in {"str", "tuple"}
             \/ last'.idx.kind = "int" /\ last'.idx.val < _edge_uid )
        => /\ last'.exc = ""
           /\ last'.idx \in DOMAIN _edge_attr'
           /\ _edge_uid' = _edge_uid
           /\ ResolvedUid(Self', None) = ResolvedUid(Self, None) ]_vars

\* add_edge(flat, idx=(0, 1)) was committed on an object whose counter stood
\* at 1, and the counter still stands at 1
C14_Witness ==
    /\ calls = 2
    /\ last.op = "add_edge"
    /\ last.idx = TupleIdx
    /\ TupleIdx \in DOMAIN _edge_attr
    /\ IntVal(0) \in DOMAIN _edge_attr
    /\ _edge_uid = 1

\* C17: between top-level calls, also after a call that raised part-way, the
\* node incidence table and the node attribute table have the same key set,
\* and the edge incidence table and the edge attribute table have the same
\* key set.
C17_SameKeySets ==
    /\ DOMAIN _node = DOMAIN _node_attr
    /\ DOMAIN _edge = DOMAIN _edge_attr

\* C17, amended: the node tables have the same key set in every state, every
\* key of the edge attribute table is a key of the edge incidence table, and
\* a call that does not raise keeps the two edge key sets equal; an add_edge
\* call that raises part-way leaves an edge record without attribute map.
C17_KeySetsUnlessRaised ==
    /\ [] ( /\ DOMAIN _node = DOMAIN _node_attr
            /\ DOMAIN _edge_attr \subseteq DOMAIN _edge )
    /\ [][ (DOMAIN _edge = DOMAIN _edge_attr /\ last'.exc = "")
           => DOMAIN _edge' = DOMAIN _edge_attr' ]_vars

\* after an add_edge call that raised on a member of its head, a call that
\* does not raise has made nodes and edges with their attribute maps
C17_Witness ==
    /\ calls = 2
    /\ last.op = "add_edge"
    /\ last.exc = ""
    /\ last.arg \in NestedSpecs
    /\ Cardinality(DOMAIN _edge_attr) >= 2
    /\ Cardinality(DOMAIN _node_attr) = 2
    /\ DOMAIN _edge # DOMAIN _edge_attr

\* C18: the allocator counter never decreases, across add_node, across
\* add_edge (committed, duplicate or raising, with any idx) and across
\* update_uid_counter itself, so a generated id is below every id generated
\* after it.
C18_CounterNeverDecreases ==
    /\ [][ /\ _edge_uid' >= _edge_uid
           /\ (last'.op = "add_edge" /\ last'.idx = None /\ WellFormed(last'.arg))
                => _edge_uid' > ResolvedUid(Self, None).val ]_vars
    /\ [] (\A idx \in Idxs \cup {TupleIdx} :
               idx # None => update_uid_counter(Self, idx).edge_uid >= _edge_uid)

\* add_edge(flat, idx=0) was committed on an object whose counter stood at 2,
\* and the counter still stands at 2
C18_Witness ==
    /\ calls = 2
    /\ last.op = "add_edge"
    /\ last.idx = IntVal(0)
    /\ last.exc = ""
    /\ IntVal(0) \in DOMAIN _edge_attr
    /\ IntVal(1) \in DOMAIN _edge_attr
    /\ _edge_uid = 2

\* the step makes the edges of the specs P, in this order, with the
\* consecutive ids from the counter value on, and no other edge
MadeInOrder(P) ==
    LET ids == [i \in 1..Len(P) |-> IntVal(_edge_uid + i - 1)]
    IN  /\ _edge_uid' = _edge_uid + Len(P)
        /\ _edge_order' = _edge_order \o ids
        /\ DOMAIN _edge' = DOMAIN _edge \cup {ids[i] : i \in 1..Len(P)}
        /\ \A i \in 1..Len(P) :
               /\ ids[i] \notin DOMAIN _edge
               /\ _edge'[ids[i]] = Described(P[i])

\* C19: a successful top-level add_edge(spec, idx=None) draws its ids in
\* pre-order: the outer edge gets the smallest id of the call, the edges of
\* the edge-like elements get the consecutive ids that follow, in the order
\* the elements are met, those of the tail before those of the head, and an
\* element's own nested edges before the edges of the elements after it.
C19_PreOrderIds ==
    [][ ( /\ last'.op = "add_edge"
          /\ last'.idx = None
          /\ WellFormed(last'.arg)
          /\ last'.exc = ""
          /\ last'.warns = 0 )
        => MadeInOrder(PreOrder(last'.arg)) ]_vars

\* add_edge(([E3], [E1])) was made on an object with the edge 0: the outer
\* edge is 1, the edge of E3 is 2, the edge of E2 inside E3 is 3 and the edge
\* of E1 in the head is 4
C19_Witness ==
    /\ calls = 2
    /\ last.op = "add_edge"
    /\ last.arg = DeepSpec
    /\ last.idx = None
    /\ last.exc = ""
    /\ last.warns = 0
    /\ _edge_order = <<IntVal(0), IntVal(1), IntVal(2), IntVal(3), IntVal(4)>>
    /\ _edge[IntVal(2)] = Described(E3)
    /\ _edge[IntVal(3)] = Described(E2)
    /\ _edge[IntVal(4)] = Described(E1)
    /\ _edge_uid = 5

(***************************************************************************)
(* The claims on incidence_matrix and on IDDict.__add__.                   *)
(***************************************************************************)
\* the 0-based place of item in the sequence ids
PlaceIn(ids, item) == (CHOOSE i \in 1..Len(ids) : ids[i] = item) - 1

\* C11: for a graph with N >= 1 nodes and M >= 1 edges, without order filter
\* and with the default weight, incidence_matrix returns a matrix of N rows
\* and M columns whose entry at (row of n, column of e) is nonzero for every
\* edge e and every tail or head member n of e, rows and columns numbered
\* from 0 in the insertion order of the node and edge tables; with index=True
\* the maps returned send each row to its node and each column to its edge.
C11_MatrixOfMembers ==
    ( /\ last.op = "incidence_matrix"
      /\ last.arg = None
      /\ _node_order # <<>>
      /\ _edge_order # <<>> )
    => /\ ret.exc = ""
       /\ ret.I.shape = <<Len(_node_order), Len(_edge_order)>>
       /\ \A e \in DOMAIN _edge : \A n \in _edge[e].in \cup _edge[e].out :
              ret.I.at[<<PlaceIn(_node_order, n), PlaceIn(_edge_order, e)>>] # 0
       /\ ret.index =>
              /\ \A n \in DOMAIN _node : ret.rowdict[PlaceIn(_node_order, n)] = n
              /\ \A e \in DOMAIN _edge : ret.coldict[PlaceIn(_edge_order, e)] = e

\* the edges incidence_matrix works on: all, or those the order filter keeps
EdgesSelected == IF last.arg = None THEN _edge_order ELSE filterby(Self, last.arg)

C15_DuplicateCoordinates ==
    ( /\ last.op = "incidence_matrix"
      /\ last.arg = None )
    => \A e \in DOMAIN _edge : \A n \in _edge[e].in \cap _edge[e].out :
           /\ ret.exc = ""
           /\ ret.I.at[<<PlaceIn(_node_order, n), PlaceIn(_edge_order, e)>>]
                  = IF ret.sparse THEN 2 ELSE 1

\* C16: self + other on two IDDicts returns a map whose keys are the keys of
\* both, with the value of self for every key of self and the value of other
\* for every key of other alone, and leaves self and other as they were.
C16_MergeSelfWins ==
    [][ last'.op = "__add__"
        => /\ DOMAIN ret' = DOMAIN d1 \cup DOMAIN d2
           /\ \A k \in DOMAIN d1 : ret'[k] = d1[k]
           /\ \A k \in DOMAIN d2 \ DOMAIN d1 : ret'[k] = d2[k]
           /\ d1' = d1
           /\ d2' = d2 ]_vars

\* d1 + d2 was called on maps that differ on "a", with "b" in d2 alone
C16_Witness ==
    /\ last.op = "__add__"
    /\ a \in DOMAIN d1
    /\ a \in DOMAIN d2
    /\ d1[a] # d2[a]
    /\ b \in DOMAIN d2 \ DOMAIN d1
    /\ ret[a] = d1[a]
    /\ ret[b] = d2[b]

====
